---- MODULE Spec2Model ----
(***************************************************************************)
(* Documentation quality dashboard (tests/docs-qa/quality_dashboard.py)    *)
(* with the report builders of its five checkers and its command line      *)
(* entry point; a checker collecting issues and building its report; the   *)
(* external link validation of comprehensive_link_checker.py; the          *)
(* authentication blueprint of the backend package                         *)
(* (backend/app/api/auth.py); the user profile resource of backend/app.py. *)
(* Each program has its own specification over the shared variables.       *)
(*                                                                         *)
(* Scores are Python floats with at most two decimals; they are kept here  *)
(* as integers in hundredths (85.0 is 8500).  A product score * weight is  *)
(* kept in units of 1/10000.  round(x, 1) on a decimal tie depends on the  *)
(* binary representation of the float, so Round1 returns the SET of values *)
(* round() can produce: one value off a tie, both neighbours on a tie.     *)
(***************************************************************************)
EXTENDS Bags, FiniteSets, Integers, Sequences, TLC

VARIABLES
    pc,                  \* position inside run_comprehensive_qa
    quality_gates,       \* self.quality_gates: gate name -> threshold
    skip_modules,        \* the skip_modules argument of the run
    invoked,             \* checkers whose entry point has been called
    link_results,        \* ComprehensiveLinkChecker.results (bag of is_valid)
    formatting_issues,   \* FormattingValidator.issues (bag of severities)
    accessibility_issues,\* AccessibilityTester.issues (bag of severities)
    mobile_issues,       \* MobileResponsivenessTester.issues (bag of severities)
    performance_metrics, \* PerformanceMonitor.metrics (bag of threshold_passed)
    results,             \* qa_results['results']
    modules_executed,    \* qa_results['modules_executed']
    quality_metrics,     \* qa_results['quality_metrics']
    gate_results,        \* qa_results['quality_gates']
    summary,             \* qa_results['summary']
    recommendations,     \* qa_results['recommendations']
    run_error,           \* qa_results['error'] (None while the key is absent)
    previous,            \* what the previous run on this dashboard returned
    exit_status,         \* exit status of the dashboard process (None while running)
    unhandled,           \* exception that left main() unhandled (None if none)
    users,               \* rows of the users table
    tokens,              \* JWTs issued by login and refresh
    jwt_blacklist,       \* auth.jwt_blacklist
    request,             \* last request handled by the auth blueprint
    response,            \* status of the response to it
    user_profiles_storage, \* app.py: user_id -> profile
    last_set,            \* user_id -> field -> value of the last PUT that set it
    profile_request,     \* last request handled by UserProfileResource
    profile_response,    \* its status and data
    external_links,      \* the external links _validate_external_links is given
    domain_tasks,        \* the _validate_domain_links tasks, in creation order
    semaphore,           \* free slots of the asyncio.Semaphore (None before it exists)
    external_cache,      \* ComprehensiveLinkChecker.external_cache: url -> is_valid
    requested            \* bag of the urls session.head was called with

vars == <<pc, quality_gates, skip_modules, invoked, link_results,
          formatting_issues, accessibility_issues, mobile_issues,
          performance_metrics, results, modules_executed, quality_metrics,
          gate_results, summary, recommendations, run_error, previous,
          exit_status, unhandled, users, tokens, jwt_blacklist, request,
          response, user_profiles_storage, last_set, profile_request,
          profile_response, external_links, domain_tasks, semaphore,
          external_cache, requested>>

\* the variables of one run_comprehensive_qa call
run_vars == <<pc, quality_gates, skip_modules, invoked, link_results,
              formatting_issues, accessibility_issues, mobile_issues,
              performance_metrics, results, modules_executed, quality_metrics,
              gate_results, summary, recommendations, run_error>>

main_vars == <<exit_status, unhandled>>

auth_vars == <<users, tokens, jwt_blacklist, request, response>>

profile_vars == <<user_profiles_storage, last_set, profile_request,
                  profile_response>>

\* the external link validation of the link checker
link_vars == <<external_links, domain_tasks, semaphore, external_cache,
               requested>>

\* everything a step of run_comprehensive_qa leaves alone
outside_run == <<previous, main_vars, auth_vars, profile_vars, link_vars>>

checker_vars == <<link_results, formatting_issues, accessibility_issues,
                  mobile_issues, performance_metrics>>

report_vars == <<quality_metrics, gate_results, summary, recommendations>>

----------------------------------------------------------------------------
(* Bounds *)

MaxLinks == 1      \* links found by one link check
MaxIssues == 1     \* issues found by one formatting/accessibility/mobile run
MaxMetrics == 1    \* thresholded metrics recorded by one performance run
MaxTokens == 4     \* JWTs issued while the process lives
MaxUsers == 4      \* rows of the users table
MaxNamed == 2      \* arguments one PUT of a profile names
MaxFindings == 11  \* issues one checker collects before it reports
MaxNative == 1     \* of these, issues of a severity the checker does not list
MaxExternalLinks == 3  \* external links of the documents, few domains

----------------------------------------------------------------------------
(* Python values *)

None == [none |-> TRUE]

EmptyDict == [k \in {} |-> 0]

\* dict.get(key, default)
Get(d, key, default) == IF key \in DOMAIN d THEN d[key] ELSE default

RECURSIVE Repeat(_, _)
Repeat(x, n) == IF n = 0 THEN <<>> ELSE <<x>> \o Repeat(x, n - 1)

\* the bag holding counts[e] copies of e
MkBag(counts) == [e \in {d \in DOMAIN counts : counts[d] > 0} |-> counts[e]]

\* a list holding the elements of a bag, grouped in the given order
RECURSIVE BagToList(_, _)
BagToList(bag, order) ==
    IF order = <<>> THEN <<>>
    ELSE Repeat(Head(order), CopiesIn(Head(order), bag)) \o BagToList(bag, Tail(order))

\* the values round(x, 1) can return, x in units of 1/10000, result in hundredths
Round1(x) ==
    LET q == x \div 1000
        r == x % 1000
    IN  IF r < 500 THEN {q * 10}
        ELSE IF r > 500 THEN {(q + 1) * 10}
        ELSE {q * 10, (q + 1) * 10}

\* round(num / den * 100, digits) for digits in {1, 2}, in hundredths
RoundPercent(num, den, digits) ==
    LET step == IF digits = 2 THEN 1 ELSE 10
        scaled == num * 10000
        q == scaled \div (den * step)
        r == scaled % (den * step)
    IN  IF 2 * r >= den * step THEN (q + 1) * step ELSE q * step

----------------------------------------------------------------------------
(* Checker report builders.  A finding is kept by its severity, the only   *)
(* field the dashboard reads; recommendations that depend on issue types,  *)
(* WCAG levels or error texts are not produced here.                       *)

FormattingSeverities == <<"error", "info", "warning">>
Severities == <<"critical", "major", "minor">>

\* the severities of a bag that a list of severities leaves out, as a list
RECURSIVE Unlisted(_, _)
Unlisted(severities, order) ==
    IF severities \subseteq {order[i] : i \in DOMAIN order} THEN <<>>
    ELSE LET sev == CHOOSE sev \in severities :
                        sev \notin {order[i] : i \in DOMAIN order}
         IN  <<sev>> \o Unlisted(severities \ {sev}, order)

\* the 'detailed_issues' list of a report, one entry per issue whatever its
\* severity
detailed_issues(issues, order) ==
    LET sorted == BagToList(issues, order \o Unlisted(BagToSet(issues), order))
    IN  [i \in DOMAIN sorted |-> [severity |-> sorted[i]]]

\* ComprehensiveLinkChecker._generate_report
_generate_report(lr) ==
    LET total_links == BagCardinality(lr)
        invalid_links == CopiesIn(FALSE, lr)
        valid_links == total_links - invalid_links
        success_rate == IF total_links > 0
                        THEN RoundPercent(valid_links, total_links, 2)
                        ELSE 10000
    IN  [summary |-> [total_links |-> total_links,
                      valid_links |-> valid_links,
                      invalid_links |-> invalid_links,
                      success_rate |-> success_rate],
         broken_links |-> Repeat([is_valid |-> FALSE], invalid_links),
         recommendations |->
             <<"Run link checking regularly in CI/CD pipeline to catch issues early">>]

\* FormattingValidator._generate_validation_report
_generate_validation_report(issues) ==
    LET total_issues == BagCardinality(issues)
        error_count == CopiesIn("error", issues)
        warning_count == CopiesIn("warning", issues)
        info_count == CopiesIn("info", issues)
        raw == 100 - (error_count * 10) - (warning_count * 3) - (info_count * 1)
        quality_score == IF raw > 0 THEN raw ELSE 0
    IN  [summary |-> [total_issues |-> total_issues,
                      errors |-> error_count,
                      warnings |-> warning_count,
                      info |-> info_count,
                      quality_score |-> quality_score * 100],
         detailed_issues |-> detailed_issues(issues, FormattingSeverities),
         recommendations |->
             (IF error_count > 0
              THEN <<"Fix all errors immediately as they may break documentation rendering">>
              ELSE <<>>) \o
             <<"Set up automated formatting validation in CI/CD pipeline",
               "Use consistent markdown formatting tools across the team",
               "Consider using a markdown linter in your development workflow">>]

\* AccessibilityTester._generate_accessibility_report
_generate_accessibility_report(issues) ==
    LET total_issues == BagCardinality(issues)
        critical_count == CopiesIn("critical", issues)
        major_count == CopiesIn("major", issues)
        minor_count == CopiesIn("minor", issues)
        raw == 100 - (critical_count * 15) - (major_count * 5) - (minor_count * 1)
        accessibility_score == IF raw > 0 THEN raw ELSE 0
    IN  [summary |-> [total_issues |-> total_issues,
                      critical_issues |-> critical_count,
                      major_issues |-> major_count,
                      minor_issues |-> minor_count,
                      accessibility_score |-> accessibility_score * 100],
         detailed_issues |-> detailed_issues(issues, Severities),
         recommendations |->
             (IF critical_count > 0
              THEN <<"Fix all critical accessibility issues immediately - they prevent access for users with disabilities">>
              ELSE <<>>) \o
             <<"Test documentation with screen readers (NVDA, JAWS, VoiceOver)",
               "Verify all functionality is accessible via keyboard navigation",
               "Check color contrast ratios meet WCAG standards",
               "Test accessibility on mobile devices and different screen sizes",
               "Integrate accessibility testing into CI/CD pipeline",
               "Include users with disabilities in testing processes">>]

\* the report with the score left below zero
_generate_responsiveness_report_unclamped(issues) ==
    LET total_issues == BagCardinality(issues)
        critical_count == CopiesIn("critical", issues)
        major_count == CopiesIn("major", issues)
        minor_count == CopiesIn("minor", issues)
        raw == 100 - (critical_count * 20) - (major_count * 5) - (minor_count * 1)
    IN  [summary |-> [total_issues |-> total_issues,
                      critical_issues |-> critical_count,
                      major_issues |-> major_count,
                      minor_issues |-> minor_count,
                      responsiveness_score |-> raw * 100],
         detailed_issues |-> detailed_issues(issues, Severities),
         recommendations |-> <<>>]

\* MobileResponsivenessTester._generate_responsiveness_report
_generate_responsiveness_report(issues) ==
    LET total_issues == BagCardinality(issues)
        critical_count == CopiesIn("critical", issues)
        major_count == CopiesIn("major", issues)
        minor_count == CopiesIn("minor", issues)
        raw == 100 - (critical_count * 20) - (major_count * 5) - (minor_count * 1)
        responsiveness_score == IF raw > 0 THEN raw ELSE 0
    IN  [summary |-> [total_issues |-> total_issues,
                      critical_issues |-> critical_count,
                      major_issues |-> major_count,
                      minor_issues |-> minor_count,
                      responsiveness_score |-> responsiveness_score * 100],
         detailed_issues |-> detailed_issues(issues, Severities),
         recommendations |->
             (IF critical_count > 0
              THEN <<"Fix all critical responsiveness issues immediately">>
              ELSE <<>>) \o
             <<"Test on real devices in addition to browser emulation",
               "Implement responsive design testing in CI/CD pipeline",
               "Monitor mobile analytics and user feedback",
               "Consider mobile-first design approach",
               "Optimize performance for mobile networks",
               "Use browser dev tools device emulation during development">>]

\* the report test_responsiveness returns when the site is not running
site_not_available_report ==
    [error |-> "Site not available",
     recommendation |-> "Start the development server with 'mkdocs serve' before running tests"]

\* PerformanceMonitor._generate_performance_report; every recorded metric
\* has a threshold, and the recommendations (a list built from a set, in no
\* fixed order) are kept in one order
_generate_performance_report(metrics) ==
    LET total_metrics == BagCardinality(metrics)
        failed == CopiesIn(FALSE, metrics)
        performance_score == IF total_metrics > 0
                             THEN RoundPercent(total_metrics - failed, total_metrics, 1)
                             ELSE 10000
    IN  [summary |-> [performance_score |-> performance_score,
                      total_metrics |-> total_metrics,
                      failed_thresholds |-> failed,
                      recommendations_count |-> failed],
         recommendations |->
             <<"Set up continuous performance monitoring in CI/CD pipeline",
               "Establish performance budgets for key metrics",
               "Prioritize mobile performance optimization",
               "Implement compression and caching strategies",
               "Optimize images with modern formats (WebP, AVIF)",
               "Consider implementing a CDN for static assets">>]

----------------------------------------------------------------------------
(* QualityDashboard *)

Modules == {"links", "formatting", "accessibility", "mobile", "performance"}

ScoreGates == {"overall_score", "link_check_score", "formatting_score",
               "accessibility_score", "mobile_score", "performance_score"}

\* the gates QualityDashboard.__init__ sets
DefaultGates ==
    [overall_score |-> 8500, link_check_score |-> 9500, formatting_score |-> 9000,
     accessibility_score |-> 8500, mobile_score |-> 8000, performance_score |-> 7500,
     critical_issues |-> 0, total_issues |-> 50]

\* overridden thresholds within reach of the bounded checkers, plus two
\* gates naming no attribute of QualityMetrics
TightGates ==
    [overall_score |-> 9500, link_check_score |-> 5000, formatting_score |-> 9700,
     accessibility_score |-> 10000, mobile_score |-> 9500, performance_score |-> 10000,
     critical_issues |-> 1, total_issues |-> 2,
     coverage_score |-> 8000, spelling_score |-> 0]

GateConfigs == {DefaultGates, TightGates}

\* weights of _calculate_quality_metrics, in hundredths
link_weight == 25
formatting_weight == 20
accessibility_weight == 25
mobile_weight == 15
performance_weight == 15

\* the score a module gets when its report is absent or has no score
DefaultScore == 10000

\* the link score with a missing report scored 0
link_score_absent_zero(res) ==
    IF "link_check" \in DOMAIN res
    THEN Get(Get(res["link_check"], "summary", EmptyDict), "success_rate", DefaultScore)
    ELSE 0

link_score(res) ==
    IF "link_check" \in DOMAIN res
    THEN Get(Get(res["link_check"], "summary", EmptyDict), "success_rate", DefaultScore)
    ELSE DefaultScore

formatting_score(res) ==
    IF "formatting" \in DOMAIN res
    THEN Get(Get(res["formatting"], "summary", EmptyDict), "quality_score", DefaultScore)
    ELSE DefaultScore

accessibility_score(res) ==
    IF "accessibility" \in DOMAIN res
    THEN Get(Get(res["accessibility"], "summary", EmptyDict), "accessibility_score", DefaultScore)
    ELSE DefaultScore

mobile_score(res) ==
    IF "mobile" \in DOMAIN res /\ "error" \notin DOMAIN res["mobile"]
    THEN Get(Get(res["mobile"], "summary", EmptyDict), "responsiveness_score", DefaultScore)
    ELSE DefaultScore

performance_score(res) ==
    IF "performance" \in DOMAIN res /\ "error" \notin DOMAIN res["performance"]
    THEN Get(Get(res["performance"], "summary", EmptyDict), "performance_score", DefaultScore)
    ELSE DefaultScore

\* the weighted sum with the mobile term given the link weight
overall_score_wrong_weight(res) ==
    link_score(res) * link_weight +
    formatting_score(res) * formatting_weight +
    accessibility_score(res) * accessibility_weight +
    mobile_score(res) * link_weight +
    performance_score(res) * performance_weight

\* the weighted sum with the performance term left out
overall_score_without_performance(res) ==
    link_score(res) * link_weight +
    formatting_score(res) * formatting_weight +
    accessibility_score(res) * accessibility_weight +
    mobile_score(res) * mobile_weight

\* the weighted sum before rounding, in units of 1/10000
overall_score(res) ==
    link_score(res) * link_weight +
    formatting_score(res) * formatting_weight +
    accessibility_score(res) * accessibility_weight +
    mobile_score(res) * mobile_weight +
    performance_score(res) * performance_weight

\* the count with a report that carries 'error' taken as one issue
module_total_issues_counts_error(module_results) ==
    (IF "error" \in DOMAIN module_results THEN 1 ELSE 0) +
    (IF "broken_links" \in DOMAIN module_results
     THEN Len(module_results.broken_links) ELSE 0) +
    (IF "detailed_issues" \in DOMAIN module_results
     THEN Len(module_results.detailed_issues) ELSE 0) +
    (IF "summary" \in DOMAIN module_results
        /\ "critical_issues" \in DOMAIN module_results.summary
     THEN Get(module_results.summary, "total_issues", 0) ELSE 0)

\* what one module report adds to total_issues
module_total_issues(module_results) ==
    (IF "broken_links" \in DOMAIN module_results
     THEN Len(module_results.broken_links) ELSE 0) +
    (IF "detailed_issues" \in DOMAIN module_results
     THEN Len(module_results.detailed_issues) ELSE 0) +
    (IF "summary" \in DOMAIN module_results
        /\ "critical_issues" \in DOMAIN module_results.summary
     THEN Get(module_results.summary, "total_issues", 0) ELSE 0)

\* what one module report adds to critical_issues
module_critical_issues(module_results) ==
    (IF "broken_links" \in DOMAIN module_results
     THEN Len(module_results.broken_links) ELSE 0) +
    (IF "detailed_issues" \in DOMAIN module_results
     THEN Cardinality({i \in DOMAIN module_results.detailed_issues :
                          Get(module_results.detailed_issues[i], "severity", None) = "critical"})
     ELSE 0) +
    (IF "summary" \in DOMAIN module_results
        /\ "critical_issues" \in DOMAIN module_results.summary
     THEN module_results.summary.critical_issues ELSE 0)

module_recommendations_count(module_results) ==
    IF "recommendations" \in DOMAIN module_results
    THEN Len(module_results.recommendations) ELSE 0

RECURSIVE SumOver(_, _, _)
SumOver(F(_), res, keys) ==
    IF keys = {} THEN 0
    ELSE LET k == CHOOSE k \in keys : TRUE
         IN  F(res[k]) + SumOver(F, res, keys \ {k})

\* the QualityMetrics records _calculate_quality_metrics can return
_calculate_quality_metrics(res) ==
    LET total_issues == SumOver(module_total_issues, res, DOMAIN res)
        critical_issues == SumOver(module_critical_issues, res, DOMAIN res)
        recommendations_count == SumOver(module_recommendations_count, res, DOMAIN res)
    IN  { [overall_score |-> ov,
           link_check_score |-> ls,
           formatting_score |-> fs,
           accessibility_score |-> as,
           mobile_score |-> ms,
           performance_score |-> ps,
           total_issues |-> total_issues,
           critical_issues |-> critical_issues,
           recommendations_count |-> recommendations_count] :
          ov \in Round1(overall_score(res)),
          ls \in Round1(link_score(res) * 100),
          fs \in Round1(formatting_score(res) * 100),
          as \in Round1(accessibility_score(res) * 100),
          ms \in Round1(mobile_score(res) * 100),
          ps \in Round1(performance_score(res) * 100) }

\* getattr with a default of 100.0
metric_value_default_100(metrics, gate_name) == Get(metrics, gate_name, DefaultScore)

\* getattr(metrics, gate_name, 0)
metric_value(metrics, gate_name) == Get(metrics, gate_name, 0)

\* the comparison with scores required to be strictly above the threshold
gate_passed_strict_score(gate_name, value, threshold) ==
    IF gate_name \in {"critical_issues"} THEN value <= threshold
    ELSE IF gate_name \in {"total_issues"} THEN value < threshold
    ELSE value > threshold

\* the comparison with total_issues allowed to equal the threshold
gate_passed_total_at_most(gate_name, value, threshold) ==
    IF gate_name \in {"critical_issues"} THEN value <= threshold
    ELSE IF gate_name \in {"total_issues"} THEN value <= threshold
    ELSE value >= threshold

\* the comparison _check_quality_gates applies to one gate
gate_passed(gate_name, value, threshold) ==
    IF gate_name \in {"critical_issues"} THEN value <= threshold
    ELSE IF gate_name \in {"total_issues"} THEN value < threshold
    ELSE value >= threshold

\* the 'overall' entry counting itself among the gates
overall_gate_counts_itself(named) ==
    LET all_passed == \A g \in DOMAIN named : named[g].passed
    IN  [status |-> IF all_passed THEN "PASS" ELSE "FAIL",
         passed_gates |-> Cardinality({g \in DOMAIN named : named[g].passed}),
         total_gates |-> Cardinality(DOMAIN named) + 1]

\* the 'overall' entry, built from the named gates
overall_gate(named) ==
    LET all_passed == \A g \in DOMAIN named : named[g].passed
    IN  [status |-> IF all_passed THEN "PASS" ELSE "FAIL",
         passed_gates |-> Cardinality({g \in DOMAIN named : named[g].passed}),
         total_gates |-> Cardinality(DOMAIN named)]

_check_quality_gates(metrics, gates) ==
    LET named == [gate_name \in DOMAIN gates |->
                    LET value == metric_value(metrics, gate_name)
                        passed == gate_passed(gate_name, value, gates[gate_name])
                    IN  [threshold |-> gates[gate_name],
                         actual |-> value,
                         passed |-> passed,
                         status |-> IF passed THEN "PASS" ELSE "FAIL"]]
    IN  ("overall" :> overall_gate(named)) @@ named

_generate_summary_score_only(qm, qg, executed) ==
    [overall_status |->
        IF Get(Get(qg, "overall_score", EmptyDict), "passed", FALSE)
        THEN "PASS" ELSE "FAIL",
     quality_score |-> Get(qm, "overall_score", 0),
     total_modules |-> Len(executed),
     critical_issues |-> Get(qm, "critical_issues", 0),
     total_issues |-> Get(qm, "total_issues", 0),
     recommendations |-> Get(qm, "recommendations_count", 0),
     quality_gates_passed |-> Get(Get(qg, "overall", EmptyDict), "passed_gates", 0),
     quality_gates_total |-> Get(Get(qg, "overall", EmptyDict), "total_gates", 0)]

_generate_summary(qm, qg, executed) ==
    [overall_status |-> IF Get(Get(qg, "overall", EmptyDict), "status", None) = "PASS"
                        THEN "PASS" ELSE "FAIL",
     quality_score |-> Get(qm, "overall_score", 0),
     total_modules |-> Len(executed),
     critical_issues |-> Get(qm, "critical_issues", 0),
     total_issues |-> Get(qm, "total_issues", 0),
     recommendations |-> Get(qm, "recommendations_count", 0),
     quality_gates_passed |-> Get(Get(qg, "overall", EmptyDict), "passed_gates", 0),
     quality_gates_total |-> Get(Get(qg, "overall", EmptyDict), "total_gates", 0)]

\* the keys of qa_results['results'] in the order the run inserts them
ResultKeys == <<"link_check", "formatting", "accessibility", "mobile", "performance">>

\* str.title() of a result key
Title(module_name) ==
    CASE module_name = "link_check" -> "Link_Check"
      [] module_name = "formatting" -> "Formatting"
      [] module_name = "accessibility" -> "Accessibility"
      [] module_name = "mobile" -> "Mobile"
      [] module_name = "performance" -> "Performance"

high_level_recs ==
    <<"Integrate QA testing into CI/CD pipeline for continuous quality monitoring",
      "Set up automated quality gates to prevent regression",
      "Establish documentation review process with quality checklist",
      "Monitor quality metrics trends over time",
      "Prioritize critical and high-severity issues first",
      "Create documentation style guide and enforce consistency",
      "Include QA testing in development workflow",
      "Ensure mobile-first approach in documentation design">>

prefixed_recs_bare(module_name, module_recs) ==
    module_recs

prefixed_recs(module_name, module_recs) ==
    [i \in DOMAIN module_recs |-> "[" \o Title(module_name) \o "] " \o module_recs[i]]

RECURSIVE collect_recommendations(_, _)
collect_recommendations(res, keys) ==
    IF keys = <<>> THEN <<>>
    ELSE (IF Head(keys) \in DOMAIN res /\ "recommendations" \in DOMAIN res[Head(keys)]
          THEN prefixed_recs(Head(keys), res[Head(keys)].recommendations)
          ELSE <<>>) \o collect_recommendations(res, Tail(keys))

\* remove duplicates while preserving order
RECURSIVE unique_recommendations(_, _)
unique_recommendations(all_recommendations, seen) ==
    IF all_recommendations = <<>> THEN <<>>
    ELSE IF Head(all_recommendations) \in seen
         THEN unique_recommendations(Tail(all_recommendations), seen)
         ELSE <<Head(all_recommendations)>> \o
              unique_recommendations(Tail(all_recommendations),
                                     seen \cup {Head(all_recommendations)})

\* the merge with the high-level recommendations put first
_generate_comprehensive_recommendations_tail_first(res) ==
    unique_recommendations(high_level_recs \o collect_recommendations(res, ResultKeys), {})

_generate_comprehensive_recommendations(res) ==
    unique_recommendations(collect_recommendations(res, ResultKeys) \o high_level_recs, {})

----------------------------------------------------------------------------
(* What one checker run can find *)

RECURSIVE SumCounts(_, _)
SumCounts(c, names) ==
    IF names = {} THEN 0
    ELSE LET n == CHOOSE n \in names : TRUE
         IN  c[n] + SumCounts(c, names \ {n})

Counts(names, max) == {c \in [names -> 0..max] : SumCounts(c, names) <= max}

FoundLinks == {MkBag(c) : c \in Counts({TRUE, FALSE}, MaxLinks)}
FoundFormattingIssues == {MkBag(c) : c \in Counts({"error", "warning", "info"}, MaxIssues)}
FoundIssues == {MkBag(c) : c \in Counts({"critical", "major", "minor"}, MaxIssues)}
FoundMetrics == {MkBag(c) : c \in Counts({TRUE, FALSE}, MaxMetrics)}

----------------------------------------------------------------------------
(* Data the backend starts with *)

\* a Python str where None can stand as well
Str(s) == [str |-> s]

\* werkzeug: the hash check_password_hash accepts for exactly this password
generate_password_hash(password) == [hash_of |-> password]

check_password_hash(password_hash, password) ==
    password_hash = generate_password_hash(password)

\* the users table after the fixtures: an admin, an ordinary user and an
\* inactive one
InitialUsers ==
    {[id |-> 1, username |-> "admin", email |-> Str("admin@user.com"),
      password_hash |-> generate_password_hash("testpass"),
      is_admin |-> TRUE, is_active |-> TRUE],
     [id |-> 2, username |-> "user", email |-> None,
      password_hash |-> generate_password_hash("testpass"),
      is_admin |-> FALSE, is_active |-> TRUE],
     [id |-> 3, username |-> "testuser", email |-> None,
      password_hash |-> generate_password_hash("testpass"),
      is_admin |-> FALSE, is_active |-> FALSE]}

\* a text is the sequence of its characters
TestUser == <<"T", "e", "s", "t", " ", "U", "s", "e", "r">>
DemoUser == <<"D", "e", "m", "o", " ", "U", "s", "e", "r">>

\* user_profiles_storage as create_app builds it (the fields the model follows)
InitialProfiles ==
    [user_id \in {"user_123", "user_456"} |->
        IF user_id = "user_123"
        THEN [user_id |-> "user_123", username |-> Str("test_user"),
              email |-> Str("test@medianest.com"), display_name |-> Str(TestUser),
              website |-> Str("https://example.com"),
              updated_at |-> "2024-01-01T00:00:00Z"]
        ELSE [user_id |-> "user_456", username |-> Str("demo_user"),
              email |-> Str("demo@medianest.com"), display_name |-> Str(DemoUser),
              website |-> None,
              updated_at |-> "2024-01-02T00:00:00Z"]]

\* the arguments of put_parser the model follows, in the order of the parser
PutFields == {"username", "email", "display_name", "website"}

----------------------------------------------------------------------------
(* run_comprehensive_qa *)

Init ==
    /\ pc = "constructed"
    /\ quality_gates \in GateConfigs
    /\ skip_modules = {}
    /\ invoked = {}
    /\ link_results = EmptyBag
    /\ formatting_issues = EmptyBag
    /\ accessibility_issues = EmptyBag
    /\ mobile_issues = EmptyBag
    /\ performance_metrics = EmptyBag
    /\ results = EmptyDict
    /\ modules_executed = <<>>
    /\ quality_metrics = None
    /\ gate_results = EmptyDict
    /\ summary = EmptyDict
    /\ recommendations = <<>>
    /\ run_error = None
    /\ previous = None
    /\ exit_status = None
    /\ unhandled = None
    /\ users = InitialUsers
    /\ tokens = {}
    /\ jwt_blacklist = {}
    /\ request = None
    /\ response = None
    /\ user_profiles_storage = InitialProfiles
    /\ last_set = [user_id \in DOMAIN InitialProfiles |-> [f \in PutFields |-> None]]
    /\ profile_request = None
    /\ profile_response = None
    /\ external_links = <<>>
    /\ domain_tasks = <<>>
    /\ semaphore = None
    /\ external_cache = EmptyDict
    /\ requested = EmptyBag

\* entry: the qa_results dictionary is created
Start(skip) ==
    /\ pc = "constructed"
    /\ pc' = "links"
    /\ skip_modules' = skip
    /\ UNCHANGED <<quality_gates, invoked, checker_vars, results, modules_executed,
                   report_vars, run_error, outside_run>>

\* a module named in skip_modules is passed over
Skip(module, next) ==
    /\ pc = module
    /\ module \in skip_modules
    /\ pc' = next
    /\ UNCHANGED <<quality_gates, skip_modules, invoked, checker_vars, results,
                   modules_executed, report_vars, run_error, outside_run>>

\* a checker raises: the except clause records the error and the run returns
Raise(module) ==
    /\ pc = module
    /\ module \notin skip_modules
    /\ pc' = "returned"
    /\ invoked' = invoked \cup {module}
    /\ run_error' = [message |-> "Error in " \o module]
    /\ UNCHANGED <<quality_gates, skip_modules, checker_vars, results,
                   modules_executed, report_vars, outside_run>>

\* a checker returns its report, which is stored under its result key
Store(module, key, report, next) ==
    /\ pc = module
    /\ module \notin skip_modules
    /\ pc' = next
    /\ invoked' = invoked \cup {module}
    /\ results' = (key :> report) @@ results
    /\ modules_executed' = Append(modules_executed, key)
    /\ UNCHANGED <<quality_gates, skip_modules, report_vars, run_error, outside_run>>

LinkCheck(found) ==
    /\ link_results' = link_results (+) found
    /\ Store("links", "link_check", _generate_report(link_results'), "formatting")
    /\ UNCHANGED <<formatting_issues, accessibility_issues, mobile_issues,
                   performance_metrics>>

SkipLinkCheck == Skip("links", "formatting")

LinkCheckRaises == Raise("links")

FormattingValidation(found) ==
    /\ formatting_issues' = formatting_issues (+) found
    /\ Store("formatting", "formatting",
             _generate_validation_report(formatting_issues'), "accessibility")
    /\ UNCHANGED <<link_results, accessibility_issues, mobile_issues,
                   performance_metrics>>

SkipFormatting == Skip("formatting", "accessibility")

FormattingRaises == Raise("formatting")

AccessibilityTesting(found) ==
    /\ accessibility_issues' = accessibility_issues (+) found
    /\ Store("accessibility", "accessibility",
             _generate_accessibility_report(accessibility_issues'), "mobile")
    /\ UNCHANGED <<link_results, formatting_issues, mobile_issues,
                   performance_metrics>>

SkipAccessibility == Skip("accessibility", "mobile")

AccessibilityRaises == Raise("accessibility")

MobileTesting(found) ==
    /\ mobile_issues' = mobile_issues (+) found
    /\ Store("mobile", "mobile",
             _generate_responsiveness_report(mobile_issues'), "performance")
    /\ UNCHANGED <<link_results, formatting_issues, accessibility_issues,
                   performance_metrics>>

\* _check_site_availability fails: test_responsiveness returns an error report
MobileSiteNotAvailable ==
    /\ Store("mobile", "mobile", site_not_available_report, "performance")
    /\ UNCHANGED checker_vars

SkipMobile == Skip("mobile", "performance")

MobileRaises == Raise("mobile")

PerformanceMonitoring(found) ==
    /\ performance_metrics' = performance_metrics (+) found
    /\ Store("performance", "performance",
             _generate_performance_report(performance_metrics'), "aggregate")
    /\ UNCHANGED <<link_results, formatting_issues, accessibility_issues,
                   mobile_issues>>

SkipPerformance == Skip("performance", "aggregate")

PerformanceRaises == Raise("performance")

\* lines 131-151: metrics, gates, summary and recommendations of the run
Aggregate ==
    /\ pc = "aggregate"
    /\ \E qm \in _calculate_quality_metrics(results) :
          LET qg == _check_quality_gates(qm, quality_gates)
          IN  /\ quality_metrics' = qm
              /\ gate_results' = qg
              /\ summary' = _generate_summary(qm, qg, modules_executed)
    /\ recommendations' = _generate_comprehensive_recommendations(results)
    /\ pc' = "returned"
    /\ UNCHANGED <<quality_gates, skip_modules, invoked, checker_vars, results,
                   modules_executed, run_error, outside_run>>

Next ==
    \/ \E skip \in SUBSET Modules : Start(skip)
    \/ \E found \in FoundLinks : LinkCheck(found)
    \/ SkipLinkCheck
    \/ LinkCheckRaises
    \/ \E found \in FoundFormattingIssues : FormattingValidation(found)
    \/ SkipFormatting
    \/ FormattingRaises
    \/ \E found \in FoundIssues : AccessibilityTesting(found)
    \/ SkipAccessibility
    \/ AccessibilityRaises
    \/ \E found \in FoundIssues : MobileTesting(found)
    \/ MobileSiteNotAvailable
    \/ SkipMobile
    \/ MobileRaises
    \/ \E found \in FoundMetrics : PerformanceMonitoring(found)
    \/ SkipPerformance
    \/ PerformanceRaises
    \/ Aggregate

Spec == Init /\ [][Next]_vars

----------------------------------------------------------------------------
(* main: one run on a freshly constructed dashboard, then the exit *)

\* what an unhandled exception leaves behind: its type
AttributeError == [type |-> "AttributeError"]

\* the status the interpreter exits with after an unhandled exception
TracebackExitStatus == 1

\* lines 797-803: exit(1) unless the summary says PASS
main_exit_code(summ) ==
    IF Get(summ, "overall_status", "UNKNOWN") # "PASS" THEN 1 ELSE 0

\* the run produced metrics: the summary is printed and main calls exit()
MainExits ==
    /\ pc = "returned"
    /\ quality_metrics # None
    /\ pc' = "exited"
    /\ exit_status' = main_exit_code(summary)
    /\ UNCHANGED <<quality_gates, skip_modules, invoked, checker_vars, results,
                   modules_executed, report_vars, run_error, previous, unhandled,
                   auth_vars, profile_vars, link_vars>>

\* a checker raised: qa_results['quality_metrics'] is None, and
\* quality_metrics.get(...) at line 783 raises out of main
MainRaises ==
    /\ pc = "returned"
    /\ quality_metrics = None
    /\ pc' = "exited"
    /\ unhandled' = AttributeError
    /\ exit_status' = TracebackExitStatus
    /\ UNCHANGED <<quality_gates, skip_modules, invoked, checker_vars, results,
                   modules_executed, report_vars, run_error, previous,
                   auth_vars, profile_vars, link_vars>>

\* main constructs QualityDashboard with the gates of __init__
InitMain == Init /\ quality_gates = DefaultGates

NextMain == Next \/ MainExits \/ MainRaises

SpecMain == InitMain /\ [][NextMain]_vars

----------------------------------------------------------------------------
(* A second run_comprehensive_qa on the same QualityDashboard *)

\* the call returned without error and the caller calls again with the same
\* arguments: lines 76-88 build a new qa_results, the checkers constructed
\* by __init__ are the ones used again
SecondCall ==
    /\ pc = "returned"
    /\ run_error = None
    /\ previous = None
    /\ previous' = [quality_metrics |-> quality_metrics,
                    results |-> results,
                    found |-> [links |-> link_results,
                               formatting |-> formatting_issues,
                               accessibility |-> accessibility_issues,
                               mobile |-> mobile_issues,
                               performance |-> performance_metrics]]
    /\ pc' = "links"
    /\ invoked' = {}
    /\ results' = EmptyDict
    /\ modules_executed' = <<>>
    /\ quality_metrics' = None
    /\ gate_results' = EmptyDict
    /\ summary' = EmptyDict
    /\ recommendations' = <<>>
    /\ UNCHANGED <<quality_gates, skip_modules, checker_vars, run_error,
                   main_vars, auth_vars, profile_vars, link_vars>>

\* the site was not reachable in the previous run
SiteWasDown ==
    /\ "mobile" \in DOMAIN previous.results
    /\ "error" \in DOMAIN previous.results["mobile"]

\* a step of the second run over unchanged content: every checker comes
\* upon what it came upon in the first run
RerunStep ==
    /\ previous # None
    /\ \/ LinkCheck(previous.found.links)
       \/ SkipLinkCheck
       \/ FormattingValidation(previous.found.formatting)
       \/ SkipFormatting
       \/ AccessibilityTesting(previous.found.accessibility)
       \/ SkipAccessibility
       \/ (~SiteWasDown /\ MobileTesting(previous.found.mobile))
       \/ (SiteWasDown /\ MobileSiteNotAvailable)
       \/ SkipMobile
       \/ PerformanceMonitoring(previous.found.performance)
       \/ SkipPerformance
       \/ Aggregate

FirstRun == previous = None /\ Next

NextRerun == FirstRun \/ SecondCall \/ RerunStep

SpecRerun == Init /\ [][NextRerun]_vars

----------------------------------------------------------------------------
(* One checker on its own: issues are collected, then the report is built *)

IssueCheckers == {"formatting", "accessibility", "mobile"}

\* the severities a checker's report builder counts
by_severity_keys(checker) ==
    IF checker = "formatting" THEN {"error", "warning", "info"}
    ELSE {"critical", "major", "minor"}

\* a severity none of the builders lists
NativeSeverity == "serious"

KeyError == [type |-> "KeyError"]

\* self.issues of a checker
issues_of(checker) ==
    CASE checker = "formatting" -> formatting_issues
      [] checker = "accessibility" -> accessibility_issues
      [] checker = "mobile" -> mobile_issues

\* by_severity[issue.severity].append(issue): the formatting validator groups
\* in a defaultdict, the two testers in a dict of their three levels
by_severity_raises(checker, issues) ==
    /\ checker # "formatting"
    /\ \E sev \in BagToSet(issues) : sev \notin by_severity_keys(checker)

\* the report a checker builds from its issues
generate_report_of(checker, issues) ==
    CASE checker = "formatting" -> _generate_validation_report(issues)
      [] checker = "accessibility" -> _generate_accessibility_report(issues)
      [] checker = "mobile" -> _generate_responsiveness_report(issues)

outside_checker == <<quality_gates, skip_modules, link_results,
                     performance_metrics, modules_executed, report_vars,
                     run_error, previous, exit_status, auth_vars, profile_vars,
                     link_vars>>

\* a checker is constructed and its entry point is called
Construct(checker) ==
    /\ pc = "constructed"
    /\ pc' = "collecting"
    /\ invoked' = {checker}
    /\ UNCHANGED <<formatting_issues, accessibility_issues, mobile_issues,
                   results, unhandled, outside_checker>>

\* _add_issue: one more issue on self.issues
AddIssue(checker, severity) ==
    /\ pc = "collecting"
    /\ checker \in invoked
    /\ BagCardinality(issues_of(checker)) < MaxFindings
    /\ severity = NativeSeverity =>
           CopiesIn(NativeSeverity, issues_of(checker)) < MaxNative
    /\ formatting_issues' = IF checker = "formatting"
                            THEN formatting_issues (+) SetToBag({severity})
                            ELSE formatting_issues
    /\ accessibility_issues' = IF checker = "accessibility"
                               THEN accessibility_issues (+) SetToBag({severity})
                               ELSE accessibility_issues
    /\ mobile_issues' = IF checker = "mobile"
                        THEN mobile_issues (+) SetToBag({severity})
                        ELSE mobile_issues
    /\ UNCHANGED <<pc, invoked, results, unhandled, outside_checker>>

\* the entry point builds the report and returns it
GenerateReport(checker) ==
    /\ pc = "collecting"
    /\ checker \in invoked
    /\ ~by_severity_raises(checker, issues_of(checker))
    /\ pc' = "reported"
    /\ results' = (checker :> generate_report_of(checker, issues_of(checker)))
    /\ UNCHANGED <<invoked, formatting_issues, accessibility_issues,
                   mobile_issues, unhandled, outside_checker>>

\* the report builder raises KeyError out of the entry point
GenerateReportRaises(checker) ==
    /\ pc = "collecting"
    /\ checker \in invoked
    /\ by_severity_raises(checker, issues_of(checker))
    /\ pc' = "raised"
    /\ unhandled' = KeyError
    /\ UNCHANGED <<invoked, formatting_issues, accessibility_issues,
                   mobile_issues, results, outside_checker>>

NextChecker ==
    \/ \E checker \in IssueCheckers : Construct(checker)
    \/ \E checker \in IssueCheckers :
          \E severity \in by_severity_keys(checker) \cup {NativeSeverity} :
             AddIssue(checker, severity)
    \/ \E checker \in IssueCheckers : GenerateReport(checker)
    \/ \E checker \in IssueCheckers : GenerateReportRaises(checker)

SpecChecker == InitMain /\ [][NextChecker]_vars

----------------------------------------------------------------------------
(* ComprehensiveLinkChecker: validation of the external links.  The tasks   *)
(* run on one event loop: a step is the code between two awaits.           *)

\* asyncio.Semaphore(10)
SemaphoreValue == 10

\* a url, kept by its host and the rest
Url(host, rest) == [netloc |-> host, rest |-> rest]

\* urlparse(url).netloc
netloc(url) == url.netloc

\* two urls of one host and one of another
SampleUrls == {Url(1, 1), Url(1, 2), Url(2, 1)}

\* one url on each of as many hosts as the semaphore admits and on one
\* more, the last url linked twice
ManyDomains ==
    [k \in 1..(SemaphoreValue + 2) |->
        Url(IF k > SemaphoreValue + 1 THEN SemaphoreValue + 1 ELSE k, 1)]

\* the urls of the external links of the documents, in the order found
ExternalUrlLists ==
    UNION {[1..n -> SampleUrls] : n \in 1..MaxExternalLinks} \cup {ManyDomains}

\* the (file_path, url, line_num, line_text) tuples of these urls
Links(urls) == [i \in DOMAIN urls |-> [url |-> urls[i], line_num |-> i]]

\* whether a HEAD of the url is answered with a status in [200, 400)
head_is_valid(url) == url.rest = 1

\* LinkResult of a link
LinkResult(link, is_valid) ==
    [url |-> link.url, line_num |-> link.line_num, is_valid |-> is_valid]

\* the grouping with one group per link
group_key_by_line(link) == link.line_num

\* the key _validate_external_links groups a link under
group_key(link) == netloc(link.url)

\* the keys of the domains dict, in insertion order
RECURSIVE domains_keys(_, _)
domains_keys(links, seen) ==
    IF links = <<>> THEN <<>>
    ELSE IF group_key(Head(links)) \in seen
         THEN domains_keys(Tail(links), seen)
         ELSE <<group_key(Head(links))>> \o
              domains_keys(Tail(links), seen \cup {group_key(Head(links))})

\* domains[domain]
domain_links(links, domain) == SelectSeq(links, LAMBDA link : group_key(link) = domain)

outside_links == <<quality_gates, skip_modules, invoked, formatting_issues,
                   accessibility_issues, mobile_issues, performance_metrics,
                   results, modules_executed, report_vars, run_error, previous,
                   main_vars, auth_vars, profile_vars>>

\* lines 241-261: the links are grouped, the semaphore and one task per
\* domain are created, and gather() is awaited
ValidateExternalLinks(urls) ==
    /\ pc = "constructed"
    /\ pc' = "gathering"
    /\ external_links' = Links(urls)
    /\ LET keys == domains_keys(external_links', {})
       IN  domain_tasks' =
               [t \in DOMAIN keys |->
                   [domain_links |-> domain_links(external_links', keys[t]),
                    at |-> 1,
                    pc |-> "created"]]
    /\ semaphore' = SemaphoreValue
    /\ UNCHANGED <<link_results, external_cache, requested, outside_links>>

\* the event loop runs the first step of the tasks in the order gather()
\* created them
MayStep(t) ==
    /\ pc = "gathering"
    /\ t \in DOMAIN domain_tasks
    /\ domain_tasks[t].pc = "created" =>
           \A j \in 1..(t - 1) : domain_tasks[j].pc # "created"

\* the link a task is at
current_link(t) == domain_tasks[t].domain_links[domain_tasks[t].at]

\* lines 268-283: the semaphore is acquired and the cache looked up; on a
\* hit the result is copied from the cache and appended, on a miss
\* session.head is called and awaited
Acquire(t) ==
    /\ MayStep(t)
    /\ domain_tasks[t].pc \in {"created", "waiting"}
    /\ semaphore > 0
    /\ semaphore' = semaphore - 1
    /\ LET link == current_link(t)
       IN  IF link.url \in DOMAIN external_cache
           THEN /\ link_results' = link_results (+)
                       SetToBag({LinkResult(link, external_cache[link.url])})
                /\ domain_tasks' = [domain_tasks EXCEPT ![t].pc = "sleeping"]
                /\ UNCHANGED requested
           ELSE /\ requested' = requested (+) SetToBag({link.url})
                /\ domain_tasks' = [domain_tasks EXCEPT ![t].pc = "requesting"]
                /\ UNCHANGED link_results
    /\ UNCHANGED <<pc, external_links, external_cache, outside_links>>

\* line 268: the semaphore has no free slot, the task waits for one
Block(t) ==
    /\ MayStep(t)
    /\ domain_tasks[t].pc = "created"
    /\ semaphore = 0
    /\ domain_tasks' = [domain_tasks EXCEPT ![t].pc = "waiting"]
    /\ UNCHANGED <<pc, external_links, semaphore, link_results, external_cache,
                   requested, outside_links>>

\* lines 283-289: the HEAD request is over; the result is cached and
\* appended, and the task sleeps
Response(t) ==
    /\ MayStep(t)
    /\ domain_tasks[t].pc = "requesting"
    /\ LET link == current_link(t)
           result == LinkResult(link, head_is_valid(link.url))
       IN  /\ external_cache' = (link.url :> result.is_valid) @@ external_cache
           /\ link_results' = link_results (+) SetToBag({result})
    /\ domain_tasks' = [domain_tasks EXCEPT ![t].pc = "sleeping"]
    /\ UNCHANGED <<pc, external_links, semaphore, requested, outside_links>>

\* lines 267-268, 289: the sleep is over, the semaphore is released and the
\* task goes on to its next link or ends
Wake(t) ==
    /\ MayStep(t)
    /\ domain_tasks[t].pc = "sleeping"
    /\ semaphore' = semaphore + 1
    /\ domain_tasks' =
           IF domain_tasks[t].at < Len(domain_tasks[t].domain_links)
           THEN [domain_tasks EXCEPT ![t].at = @ + 1, ![t].pc = "waiting"]
           ELSE [domain_tasks EXCEPT ![t].pc = "done"]
    /\ UNCHANGED <<pc, external_links, link_results, external_cache, requested,
                   outside_links>>

\* line 261: every task has ended, gather() returns
GatherReturns ==
    /\ pc = "gathering"
    /\ \A t \in DOMAIN domain_tasks : domain_tasks[t].pc = "done"
    /\ pc' = "validated"
    /\ UNCHANGED <<external_links, domain_tasks, semaphore, link_results,
                   external_cache, requested, outside_links>>

NextLinks ==
    \/ \E urls \in ExternalUrlLists : ValidateExternalLinks(urls)
    \/ \E t \in DOMAIN domain_tasks : Acquire(t)
    \/ \E t \in DOMAIN domain_tasks : Block(t)
    \/ \E t \in DOMAIN domain_tasks : Response(t)
    \/ \E t \in DOMAIN domain_tasks : Wake(t)
    \/ GatherReturns

SpecLinks == InitMain /\ [][NextLinks]_vars

----------------------------------------------------------------------------
(* backend.app: the JWT managers and the auth blueprint *)

\* everything a request to the auth blueprint leaves alone
outside_auth == <<run_vars, previous, main_vars, profile_vars, link_vars>>

\* the backend processes start next to a dashboard nobody has run
InitBackend == Init /\ quality_gates = DefaultGates

\* the two JWTManager objects of the package
AppJwt == "backend.app.jwt"
AuthJwt == "backend.app.api.auth.jwt"

\* the JWTManager create_app registers with the application (jwt.init_app);
\* the decorators of a request look their callbacks up on this one
app_jwt_manager == AppJwt

\* @jwt.token_in_blocklist_loader in auth.py decorates with auth.py's own
\* JWTManager; a manager without a loader keeps the library's default
token_in_blocklist_callback(manager) ==
    IF manager = AuthJwt THEN "check_if_token_revoked"
    ELSE "default_blocklist_callback"

check_if_token_revoked(jwt_payload) == jwt_payload.jti \in jwt_blacklist

\* flask_jwt_extended's default: no token is revoked
default_blocklist_callback(jwt_payload) == FALSE

token_is_blocklisted(jwt_payload) ==
    IF token_in_blocklist_callback(app_jwt_manager) = "check_if_token_revoked"
    THEN check_if_token_revoked(jwt_payload)
    ELSE default_blocklist_callback(jwt_payload)

\* @jwt_required(refresh=...): the response that keeps the view from
\* running, None when the token is accepted
jwt_required(token, refresh) ==
    IF token = None THEN [status |-> 401]
    ELSE IF (token.type = "refresh") # refresh THEN [status |-> 422]
    ELSE IF token_is_blocklisted(token) THEN [status |-> 401]
    ELSE None

\* create_access_token / create_refresh_token: a token with a fresh jti
create_token(identity, type, n) ==
    [jti |-> Cardinality(tokens) + n, identity |-> identity, type |-> type]

\* the request as the properties look at it: was the presented token
\* logged out before
Presented(endpoint, token) ==
    [endpoint |-> endpoint, token |-> token,
     revoked |-> token # None /\ token.jti \in jwt_blacklist]

UsersNamed(username) == {u \in users : u.username = username}

check_password(user, password) == check_password_hash(user.password_hash, password)

\* the status login answers with
login(data) ==
    IF data = None \/ "username" \notin DOMAIN data \/ "password" \notin DOMAIN data
    THEN 400
    ELSE IF UsersNamed(data.username) = {}
         THEN 401
         ELSE LET user == CHOOSE u \in UsersNamed(data.username) : TRUE
              IN  IF ~check_password(user, data.password) THEN 401
                  ELSE IF ~user.is_active THEN 403
                  ELSE 200

LoginBodies ==
    {None, [username |-> "admin"], [password |-> "testpass"]}
    \cup {[username |-> u, password |-> pw] :
             u \in {"admin", "user", "testuser", "nobody"},
             pw \in {"testpass", "wrongpass"}}

Login(data) ==
    /\ request' = Presented("login", None)
    /\ response' = [status |-> login(data)]
    /\ IF login(data) = 200
       THEN LET user == CHOOSE u \in UsersNamed(data.username) : TRUE
            IN  /\ Cardinality(tokens) + 2 <= MaxTokens
                /\ tokens' = tokens \cup {create_token(user.id, "access", 1),
                                           create_token(user.id, "refresh", 2)}
       ELSE UNCHANGED tokens
    /\ UNCHANGED <<users, jwt_blacklist, outside_auth>>

Logout(token) ==
    /\ request' = Presented("logout", token)
    /\ IF jwt_required(token, FALSE) # None
       THEN /\ response' = jwt_required(token, FALSE)
            /\ UNCHANGED jwt_blacklist
       ELSE /\ jwt_blacklist' = jwt_blacklist \cup {token.jti}
            /\ response' = [status |-> 200]
    /\ UNCHANGED <<users, tokens, outside_auth>>

Refresh(token) ==
    /\ request' = Presented("refresh", token)
    /\ IF jwt_required(token, TRUE) # None
       THEN /\ response' = jwt_required(token, TRUE)
            /\ UNCHANGED tokens
       ELSE /\ Cardinality(tokens) + 1 <= MaxTokens
            /\ tokens' = tokens \cup {create_token(token.identity, "access", 1)}
            /\ response' = [status |-> 200]
    /\ UNCHANGED <<users, jwt_blacklist, outside_auth>>

NextAuth ==
    \/ \E data \in LoginBodies : Login(data)
    \/ \E token \in tokens \cup {None} : Logout(token)
    \/ \E token \in tokens \cup {None} : Refresh(token)

SpecAuth == InitBackend /\ [][NextAuth]_vars

----------------------------------------------------------------------------
(* backend.app: POST /api/auth/register *)

\* data.get('email')
email_of(data) == IF "email" \in DOMAIN data THEN data.email ELSE None

\* the truth value Python gives an email: None and '' are false
truthy(email) == email # None /\ email # Str("")

\* the primary key autoincrement gives the next row
next_id == 1 + Cardinality(users)

\* User(username=..., password=..., email=...)
User(username, password, email) ==
    [id |-> next_id, username |-> username, email |-> email,
     password_hash |-> generate_password_hash(password),
     is_admin |-> FALSE, is_active |-> TRUE]

\* session.commit() raises when a unique index rejects the row: username,
\* and email unless it is NULL
commit_raises(new_user) ==
    \/ \E u \in users : u.username = new_user.username
    \/ new_user.email # None /\ \E u \in users : u.email = new_user.email

register_any_caller(identity, data) ==
    IF data = None \/ "username" \notin DOMAIN data \/ "password" \notin DOMAIN data
    THEN 400
    ELSE IF UsersNamed(data.username) # {} THEN 400
    ELSE IF truthy(email_of(data)) /\ \E u \in users : u.email = email_of(data)
         THEN 400
    ELSE IF commit_raises(User(data.username, data.password, email_of(data)))
         THEN 500
    ELSE 201

\* the status register answers with once the token is accepted; identity is
\* get_jwt_identity()
register(identity, data) ==
    IF data = None \/ "username" \notin DOMAIN data \/ "password" \notin DOMAIN data
    THEN 400
    ELSE IF ~\E admin_user \in users : admin_user.id = identity /\ admin_user.is_admin
         THEN 403
    ELSE IF UsersNamed(data.username) # {} THEN 400
    ELSE IF truthy(email_of(data)) /\ \E u \in users : u.email = email_of(data)
         THEN 400
    ELSE IF commit_raises(User(data.username, data.password, email_of(data)))
         THEN 500
    ELSE 201

RegisterBodies ==
    {None, [username |-> "alice"], [password |-> "newpass"]}
    \cup {[username |-> u, password |-> "newpass"] : u \in {"admin", "alice", "bob"}}
    \cup {[username |-> u, password |-> "newpass", email |-> e] :
             u \in {"admin", "alice", "bob"},
             e \in {None, Str(""), Str("admin@user.com"), Str("new@user.com")}}

\* a register request whose token is accepted
Register(identity, data) ==
    /\ request' = [endpoint |-> "register", authenticated |-> TRUE,
                   identity |-> identity, data |-> data, users_before |-> users]
    /\ response' = [status |-> register(identity, data)]
    /\ IF register(identity, data) = 201
       THEN /\ Cardinality(users) < MaxUsers
            /\ users' = users \cup {User(data.username, data.password, email_of(data))}
       ELSE UNCHANGED users
    /\ UNCHANGED <<tokens, jwt_blacklist, outside_auth>>

\* a register request without a token: @jwt_required() answers
RegisterUnauthorized(data) ==
    /\ request' = [endpoint |-> "register", authenticated |-> FALSE,
                   identity |-> None, data |-> data, users_before |-> users]
    /\ response' = jwt_required(None, FALSE)
    /\ UNCHANGED <<users, tokens, jwt_blacklist, outside_auth>>

NextRegister ==
    \/ \E u \in users, data \in RegisterBodies : Register(u.id, data)
    \/ \E data \in RegisterBodies : RegisterUnauthorized(data)

SpecRegister == InitBackend /\ [][NextRegister]_vars

----------------------------------------------------------------------------
(* backend/app.py: UserProfileResource *)

outside_profile == <<run_vars, previous, main_vars, auth_vars, link_vars>>

\* re.sub(r'<[^>]*>', '', text): from a "<" up to the next ">"
RECURSIVE strip_tags(_)
strip_tags(text) ==
    IF text = <<>> THEN <<>>
    ELSE IF Head(text) = "<" /\ \E i \in 2..Len(text) : text[i] = ">"
         THEN LET close == CHOOSE i \in 2..Len(text) :
                              text[i] = ">" /\ \A j \in 2..(i - 1) : text[j] # ">"
              IN  strip_tags(SubSeq(text, close + 1, Len(text)))
         ELSE <<Head(text)>> \o strip_tags(Tail(text))

\* re.sub(r'[<>"\']', '', text)
remove_dangerous(text) ==
    SelectSeq(text, LAMBDA c : c \notin {"<", ">", "\"", "'"})

\* str.strip()
RECURSIVE strip(_)
strip(text) ==
    IF text # <<>> /\ Head(text) = " " THEN strip(Tail(text))
    ELSE IF text # <<>> /\ text[Len(text)] = " "
         THEN strip(SubSeq(text, 1, Len(text) - 1))
         ELSE text

sanitize_text_input(value) ==
    IF value = Str(<<>>) THEN value
    ELSE Str(strip(remove_dangerous(strip_tags(value.str))))

\* the sample strings each pattern of the resource accepts
UserIdPattern == {"user_123", "user_456", "user_789"}
UsernamePattern == {Str("test_user"), Str("demo_user"), Str("new_user")}
PutEmailPattern ==
    {Str("test@medianest.com"), Str("demo@medianest.com"),
     Str("new@medianest.com"), Str("new user@medianest.com")}
SchemaEmails ==
    {Str("test@medianest.com"), Str("demo@medianest.com"), Str("new@medianest.com")}
UrlPrefixed == {Str("https://example.com"), Str("https://medianest.com"), Str("http://")}
SchemaUrls == {Str("https://example.com"), Str("https://medianest.com")}

\* UserProfileSchema().load(profile, partial=True) raises no ValidationError
schema_loads(profile) ==
    /\ profile.username \in UsernamePattern
    /\ profile.email \in SchemaEmails
    /\ profile.website = None \/ profile.website \in SchemaUrls

\* lines 493-538: the first argument that is turned down
invalid_argument(args) ==
    \/ args.username # None /\ args.username \notin UsernamePattern
    \/ args.email # None /\ args.email \notin PutEmailPattern
    \/ args.website # None /\ args.website \notin UrlPrefixed

\* lines 492-538: the provided arguments, the texts sanitized
update_data(args) ==
    LET given == {f \in PutFields : args[f] # None}
    IN  [f \in given |-> IF f = "display_name"
                          THEN sanitize_text_input(args[f]) ELSE args[f]]

merge_keeps_current(current_profile, update) ==
    current_profile

\* {**current_profile, **update_data}
merge(current_profile, update) ==
    [f \in DOMAIN current_profile |->
        IF f \in DOMAIN update THEN update[f] ELSE current_profile[f]]

\* datetime.utcnow().isoformat()
utcnow == "utcnow"

\* the updated profile with a given username taken as its user_id
updated_profile_named_after_username(user_id, args) ==
    [merge(user_profiles_storage[user_id], update_data(args))
        EXCEPT !.updated_at = utcnow,
               !.user_id = IF args.username # None THEN args.username.str ELSE @]

updated_profile(user_id, args) ==
    [merge(user_profiles_storage[user_id], update_data(args))
        EXCEPT !.updated_at = utcnow]

\* status and data of the answer to a PUT
put(user_id, args) ==
    IF user_id \notin UserIdPattern
    THEN [status |-> 400, data |-> None]
    ELSE IF user_id \notin DOMAIN user_profiles_storage
    THEN [status |-> 404, data |-> None]
    ELSE IF invalid_argument(args)
    THEN [status |-> 400, data |-> None]
    ELSE LET updated == updated_profile(user_id, args)
         IN  IF ~schema_loads(updated)
             THEN [status |-> 422, data |-> None]
             ELSE [status |-> 200, data |-> updated]

\* status and data of the answer to a GET
get(user_id) ==
    IF user_id \notin UserIdPattern
    THEN [status |-> 400, data |-> None]
    ELSE IF user_id \notin DOMAIN user_profiles_storage
    THEN [status |-> 404, data |-> None]
    ELSE IF ~schema_loads(user_profiles_storage[user_id])
    THEN [status |-> 422, data |-> None]
    ELSE [status |-> 200, data |-> user_profiles_storage[user_id]]

UserIds == {"user_123", "user_456", "user_789", "bad id"}

DisplayNames ==
    {Str(<<"<", "b", ">", "B", "o", "b">>), Str(<<" ", "B", "'", "o", "<", " ">>)}

\* parse_args() gives None for an argument the body does not name
NoArgs == [f \in PutFields |-> None]

PutArgs ==
    {args \in [username : {None, Str("new_user"), Str("ab")},
               email : {None, Str("new@medianest.com"),
                        Str("new user@medianest.com"), Str("invalid-email")},
               display_name : {None} \cup DisplayNames,
               website : {None, Str("https://medianest.com"),
                          Str("ftp://medianest.com"), Str("http://")}] :
        Cardinality({f \in PutFields : args[f] # None}) <= MaxNamed}

ProfileGet(user_id) ==
    /\ profile_request' = [method |-> "GET", user_id |-> user_id]
    /\ profile_response' = get(user_id)
    /\ UNCHANGED <<user_profiles_storage, last_set, outside_profile>>

ProfilePut(user_id, args) ==
    /\ profile_request' = [method |-> "PUT", user_id |-> user_id]
    /\ LET answer == put(user_id, args)
       IN  /\ profile_response' = answer
           /\ IF answer.status = 200
              THEN /\ user_profiles_storage' =
                          [user_profiles_storage EXCEPT ![user_id] = answer.data]
                   /\ last_set' =
                          [last_set EXCEPT ![user_id] =
                              [f \in PutFields |->
                                  IF args[f] # None THEN args[f] ELSE @[f]]]
              ELSE UNCHANGED <<user_profiles_storage, last_set>>
    /\ UNCHANGED outside_profile

NextProfile ==
    \/ \E user_id \in UserIds : ProfileGet(user_id)
    \/ \E user_id \in DOMAIN user_profiles_storage, args \in PutArgs :
          ProfilePut(user_id, args)
    \/ \E user_id \in UserIds \ DOMAIN user_profiles_storage :
          ProfilePut(user_id, NoArgs)

SpecProfile == InitBackend /\ [][NextProfile]_vars

----------------------------------------------------------------------------
(* Vocabulary of the properties *)

\* the result key a module name of the skip list is stored under
Key(m) == IF m = "links" THEN "link_check" ELSE m

\* the QualityMetrics attribute holding a module's score
ScoreAttr(m) ==
    CASE m = "links" -> "link_check_score"
      [] m = "formatting" -> "formatting_score"
      [] m = "accessibility" -> "accessibility_score"
      [] m = "mobile" -> "mobile_score"
      [] m = "performance" -> "performance_score"

\* the summary field a checker reports its score in
SummaryField(m) ==
    CASE m = "links" -> "success_rate"
      [] m = "formatting" -> "quality_score"
      [] m = "accessibility" -> "accessibility_score"
      [] m = "mobile" -> "responsiveness_score"
      [] m = "performance" -> "performance_score"

Weight(m) ==
    CASE m = "links" -> link_weight
      [] m = "formatting" -> formatting_weight
      [] m = "accessibility" -> accessibility_weight
      [] m = "mobile" -> mobile_weight
      [] m = "performance" -> performance_weight

Returned == pc = "returned"
Aggregated == pc = "returned" /\ run_error = None
Raised(m) == run_error = [message |-> "Error in " \o m]
Ran(m) == Key(m) \in DOMAIN results
HasError(m) == Ran(m) /\ "error" \in DOMAIN results[Key(m)]

\* the score a module that ran reported in its summary (hundredths)
ReportedScore(m) == results[Key(m)].summary[SummaryField(m)]

RECURSIVE SumSet(_, _)
SumSet(F(_), S) ==
    IF S = {} THEN 0
    ELSE LET x == CHOOSE x \in S : TRUE IN F(x) + SumSet(F, S \ {x})

\* the values round(num / den, 1) can return, num / den in hundredths
RoundRatio1(num, den) ==
    LET q == num \div (10 * den)
        r == num % (10 * den)
    IN  IF 2 * r < 10 * den THEN {q * 10}
        ELSE IF 2 * r > 10 * den THEN {(q + 1) * 10}
        ELSE {q * 10, (q + 1) * 10}

\* findings of one report: its broken links and its detailed issues
Findings(report) ==
    (IF "broken_links" \in DOMAIN report THEN Len(report.broken_links) ELSE 0) +
    (IF "detailed_issues" \in DOMAIN report THEN Len(report.detailed_issues) ELSE 0)

\* critical findings of one report: its broken links (which the dashboard
\* classes as critical) and its detailed issues of severity critical
CriticalFindings(report) ==
    (IF "broken_links" \in DOMAIN report THEN Len(report.broken_links) ELSE 0) +
    (IF "detailed_issues" \in DOMAIN report
     THEN Cardinality({i \in DOMAIN report.detailed_issues :
                          report.detailed_issues[i].severity = "critical"})
     ELSE 0)

----------------------------------------------------------------------------
(* C1 *)

\* C1: failure isolation.  If a checker raises, the returned report holds an
\* entry for that module with error set and score 0, every other non-skipped
\* module has its report, and overall_score is computed.
C1_FailureIsolation ==
    \A m \in Modules :
        (Returned /\ Raised(m)) =>
            /\ HasError(m)
            /\ \A o \in Modules \ skip_modules : Ran(o)
            /\ quality_metrics # None
            /\ quality_metrics[ScoreAttr(m)] = 0

(* C2 *)

\* C2: report completeness.  Whenever run_comprehensive_qa returns, the
\* report has quality_metrics with overall_score, quality_gates with the
\* 'overall' entry, a summary and recommendations.
C2_ReportComplete ==
    Returned =>
        /\ quality_metrics # None
        /\ "overall_score" \in DOMAIN quality_metrics
        /\ "overall" \in DOMAIN gate_results
        /\ summary # EmptyDict
        /\ recommendations # <<>>

(* C3 *)

ScoreOfRan(m) == IF HasError(m) THEN DefaultScore ELSE ReportedScore(m)
WeightedOfRan(m) == Weight(m) * ScoreOfRan(m)

ScoreOrDefault(m) == IF Ran(m) THEN ScoreOfRan(m) ELSE DefaultScore
WeightedOrDefault(m) == Weight(m) * ScoreOrDefault(m)

ScoreErrorZero(m) ==
    IF ~Ran(m) THEN DefaultScore ELSE IF HasError(m) THEN 0 ELSE ReportedScore(m)
WeightedErrorZero(m) == Weight(m) * ScoreErrorZero(m)

\* C4: a module whose report carries an 'error' field is scored 0 and is
\* counted in the weighted sum with its full weight.
C4_ErrorScoresZero ==
    \A m \in Modules :
        (Aggregated /\ HasError(m)) =>
            /\ quality_metrics[ScoreAttr(m)] = 0
            /\ quality_metrics.overall_score \in
                   Round1(SumSet(WeightedErrorZero, Modules))

(* C5 *)

\* C5: gate comparison correctness.  The critical_issues gate passes exactly
\* when the actual critical_issues is at most its threshold, and every score
\* gate passes exactly when the actual score is at least its threshold.
C5_GateComparison ==
    Aggregated =>
        /\ gate_results["critical_issues"].actual = quality_metrics.critical_issues
        /\ gate_results["critical_issues"].threshold = quality_gates["critical_issues"]
        /\ gate_results["critical_issues"].passed =
               (quality_metrics.critical_issues <= quality_gates["critical_issues"])
        /\ \A g \in ScoreGates :
               /\ gate_results[g].actual = quality_metrics[g]
               /\ gate_results[g].threshold = quality_gates[g]
               /\ gate_results[g].passed = (quality_metrics[g] >= quality_gates[g])

\* a score equal to its threshold passes while another score gate fails and
\* the critical_issues gate fails
C5_Witness ==
    /\ Aggregated
    /\ \E g \in ScoreGates : quality_metrics[g] = quality_gates[g] /\ gate_results[g].passed
    /\ \E g \in ScoreGates : quality_metrics[g] < quality_gates[g] /\ ~gate_results[g].passed
    /\ quality_metrics.critical_issues > quality_gates["critical_issues"]
    /\ ~gate_results["critical_issues"].passed

(* C6 *)

\* C6 as stated: the total_issues gate passes if and only if the actual
\* total_issues is at most the threshold.
C6_TotalAtMost ==
    Aggregated =>
        gate_results["total_issues"].passed =
            (quality_metrics.total_issues <= quality_gates["total_issues"])

\* C6 amended: the total_issues gate passes if and only if the actual
\* total_issues is strictly below the threshold; it fails when total_issues
\* equals the threshold.
C6_TotalStrictlyBelow ==
    Aggregated =>
        /\ gate_results["total_issues"].actual = quality_metrics.total_issues
        /\ gate_results["total_issues"].passed =
               (quality_metrics.total_issues < quality_gates["total_issues"])

\* total_issues equals the threshold and the gate failed
C6_Witness ==
    /\ Aggregated
    /\ quality_metrics.total_issues = quality_gates["total_issues"]
    /\ ~gate_results["total_issues"].passed

(* C7 *)

\* the attributes of QualityMetrics
MetricNames == ScoreGates \cup {"total_issues", "critical_issues", "recommendations_count"}

\* a gate names a missing metric: an unknown name, or the score of a module
\* that did not run because it was skipped
MissingMetric(g) ==
    \/ g \notin MetricNames
    \/ \E m \in skip_modules : g = ScoreAttr(m)

NamedGates == DOMAIN gate_results \ {"overall"}

\* C8: the 'overall' gate has status PASS if and only if every named gate
\* passed; its passed count is the number of named gates that passed and its
\* total count is the number of named gates, 'overall' counted in neither.
C8_OverallGate ==
    Aggregated =>
        /\ NamedGates = DOMAIN quality_gates
        /\ (gate_results["overall"].status = "PASS") =
               (\A g \in NamedGates : gate_results[g].passed)
        /\ gate_results["overall"].status \in {"PASS", "FAIL"}
        /\ gate_results["overall"].passed_gates =
               Cardinality({g \in NamedGates : gate_results[g].passed})
        /\ gate_results["overall"].total_gates = Cardinality(NamedGates)

\* some named gates passed and some failed
C8_Witness ==
    /\ Aggregated
    /\ gate_results["overall"].status = "FAIL"
    /\ gate_results["overall"].passed_gates > 0
    /\ gate_results["overall"].passed_gates < gate_results["overall"].total_gates

(* C9 *)

\* C9: critical_issues equals the number of findings of severity critical
\* across all module reports, each finding counted exactly once.
C9_CriticalCountedOnce ==
    Aggregated =>
        quality_metrics.critical_issues = SumOver(CriticalFindings, results, DOMAIN results)

(* C10 *)

\* C10: total_issues equals the sum over all module reports of the number
\* of findings in the report, each finding counted exactly once.
C10_TotalCountedOnce ==
    Aggregated =>
        quality_metrics.total_issues = SumOver(Findings, results, DOMAIN results)

----------------------------------------------------------------------------
(* C11 *)

\* the modules in the order run_comprehensive_qa registers them
RegistrationOrder == <<"links", "formatting", "accessibility", "mobile", "performance">>

\* the bracketed name put in front of a module's recommendations
Prefix(m) ==
    CASE m = "links" -> "[Link_Check] "
      [] m = "formatting" -> "[Formatting] "
      [] m = "accessibility" -> "[Accessibility] "
      [] m = "mobile" -> "[Mobile] "
      [] m = "performance" -> "[Performance] "

\* what a module's report recommends, each entry behind the module's prefix
ModuleRecommendations(m) ==
    IF Ran(m) /\ "recommendations" \in DOMAIN results[Key(m)]
    THEN LET recs == results[Key(m)].recommendations
         IN  [i \in DOMAIN recs |-> Prefix(m) \o recs[i]]
    ELSE <<>>

\* every recommendation in the order it is seen: modules in registration
\* order, then the process-level tail
AllSeen ==
    ModuleRecommendations(RegistrationOrder[1]) \o
    ModuleRecommendations(RegistrationOrder[2]) \o
    ModuleRecommendations(RegistrationOrder[3]) \o
    ModuleRecommendations(RegistrationOrder[4]) \o
    ModuleRecommendations(RegistrationOrder[5]) \o high_level_recs

\* the positions at which a string occurs for the first time
FirstSeen(s) == {i \in DOMAIN s : \A j \in 1..(i - 1) : s[j] # s[i]}

\* the rank of a position among a set of positions
Rank(P, i) == Cardinality({j \in P : j <= i})

\* C11: the merged recommendations of a completed run hold no string twice;
\* they are the module recommendations, each behind its module's prefix, in
\* registration order of the modules, followed by the process-level tail,
\* every string at the place of its first occurrence.
C11_RecommendationMerge ==
    Aggregated =>
        /\ \A i, j \in DOMAIN recommendations :
               i # j => recommendations[i] # recommendations[j]
        /\ LET seen == AllSeen
                first == FirstSeen(seen)
            IN  /\ Len(recommendations) = Cardinality(first)
                /\ \A i \in first : recommendations[Rank(first, i)] = seen[i]

\* two modules recommended something and the tail follows them
C11_Witness ==
    /\ Aggregated
    /\ ModuleRecommendations("links") # <<>>
    /\ ModuleRecommendations("accessibility") # <<>>
    /\ Len(ModuleRecommendations("formatting")) > 3
    /\ Len(recommendations) > Len(high_level_recs) + 4

----------------------------------------------------------------------------
(* C13 *)

Executed(m) == \E i \in DOMAIN modules_executed : modules_executed[i] = Key(m)

\* C13: when the run has returned, a module of the skip set was never
\* invoked and is in neither the results nor modules_executed, and every
\* other module is in both.
C13_SkipSemantics ==
    Returned =>
        \A m \in Modules :
            /\ m \in skip_modules =>
                   m \notin invoked /\ ~Ran(m) /\ ~Executed(m)
            /\ m \notin skip_modules => Ran(m) /\ Executed(m)

----------------------------------------------------------------------------
(* C14 *)

SeverityLevels == {"critical", "major", "minor"}

FindingCheckers == {"formatting", "accessibility", "mobile"}

\* the severities of the findings a module's report hands to the aggregation
ReportedSeverities(m) ==
    IF Ran(m) /\ "detailed_issues" \in DOMAIN results[Key(m)]
    THEN {results[Key(m)].detailed_issues[i].severity :
             i \in DOMAIN results[Key(m)].detailed_issues}
    ELSE {}

\* C14: every finding a checker holds, and every finding a report hands to
\* the aggregation, has severity critical, major or minor.
C14_SeverityInvariant ==
    /\ \A sev \in BagToSet(formatting_issues) \cup BagToSet(accessibility_issues)
                    \cup BagToSet(mobile_issues) : sev \in SeverityLevels
    /\ \A m \in FindingCheckers : ReportedSeverities(m) \subseteq SeverityLevels

----------------------------------------------------------------------------
(* C15 *)

Exited == pc = "exited"

OverallGatePassed ==
    "overall" \in DOMAIN gate_results /\ gate_results["overall"].status = "PASS"

\* C15: when the dashboard process has ended, its exit status is 0 if the
\* overall gate of the run passed and 1 in every other case.
C15_ExitCode ==
    Exited => exit_status = (IF OverallGatePassed THEN 0 ELSE 1)

\* main has exited both ways: a run whose overall gate failed although its
\* score gate passed is behind it
C15_Witness ==
    /\ Exited
    /\ exit_status = 1
    /\ unhandled = None
    /\ gate_results["overall_score"].passed

----------------------------------------------------------------------------
(* C16 *)

SecondRunDone == previous # None /\ Aggregated

\* C16: when a second run over unchanged content has completed on the same
\* dashboard, its total_issues, critical_issues and module scores are those
\* of the first run, and the checkers hold what this run found and nothing
\* of the first.
C16_RerunIndependent ==
    SecondRunDone =>
        /\ quality_metrics.total_issues = previous.quality_metrics.total_issues
        /\ quality_metrics.critical_issues = previous.quality_metrics.critical_issues
        /\ \A m \in Modules :
               quality_metrics[ScoreAttr(m)] = previous.quality_metrics[ScoreAttr(m)]
        /\ link_results = previous.found.links
        /\ formatting_issues = previous.found.formatting
        /\ accessibility_issues = previous.found.accessibility
        /\ mobile_issues = previous.found.mobile
        /\ performance_metrics = previous.found.performance

----------------------------------------------------------------------------
(* C17 *)

\* C17: a request that presents a token after a logout with that token
\* answered 200 is answered 401.
C17_RevokedTokenRejected ==
    (request # None /\ request.revoked) => response.status = 401

----------------------------------------------------------------------------
(* C18 *)

\* the last request was a register call of an authenticated caller
Registering ==
    request # None /\ request.endpoint = "register" /\ request.authenticated

CallerIsAdmin ==
    \E u \in request.users_before : u.id = request.identity /\ u.is_admin

HasCredentials ==
    /\ request.data # None
    /\ "username" \in DOMAIN request.data
    /\ "password" \in DOMAIN request.data

DuplicateUsername ==
    /\ request.data # None
    /\ "username" \in DOMAIN request.data
    /\ \E u \in request.users_before : u.username = request.data.username

\* an email is given when the body has one that is neither null nor empty
GivenEmail ==
    IF request.data # None /\ "email" \in DOMAIN request.data
       /\ request.data.email # Str("")
    THEN request.data.email
    ELSE None

DuplicateEmail ==
    GivenEmail # None /\ \E u \in request.users_before : u.email = GivenEmail

\* no two users share a username or an email
UsersUnique ==
    \A u, v \in users :
        u # v => /\ u.username # v.username
                 /\ u.email # None => u.email # v.email

\* C18 as stated: a user is added only for an existing admin and a new
\* username and email; every non-admin caller gets 403, every duplicate
\* gets 400, both leave the users alone; usernames and emails stay unique.
C18_RegistrationGuard ==
    Registering =>
        /\ users # request.users_before =>
               CallerIsAdmin /\ ~DuplicateUsername /\ ~DuplicateEmail
        /\ ~CallerIsAdmin => response.status = 403
        /\ (CallerIsAdmin /\ (DuplicateUsername \/ DuplicateEmail)) =>
               response.status = 400
        /\ response.status \in {400, 403} => users = request.users_before
        /\ UsersUnique

\* C18, amended: the body is looked at before the caller.  A body without
\* username or password gets 400 whoever calls; with both, a caller who is
\* not an existing admin gets 403, and an admin's request with an existing
\* username or an existing given email gets 400.  The users change only on
\* 201, by exactly the one user asked for, who is no admin; usernames and
\* emails stay unique.
C18_GuardInOrder ==
    Registering =>
        /\ ~HasCredentials => response.status = 400
        /\ (HasCredentials /\ ~CallerIsAdmin) => response.status = 403
        /\ (HasCredentials /\ CallerIsAdmin
              /\ (DuplicateUsername \/ DuplicateEmail)) => response.status = 400
        /\ response.status # 201 => users = request.users_before
        /\ response.status = 201 =>
               /\ HasCredentials /\ CallerIsAdmin
               /\ ~DuplicateUsername /\ ~DuplicateEmail
               /\ \E u \in users \ request.users_before :
                      /\ users = request.users_before \cup {u}
                      /\ u.username = request.data.username
                      /\ u.email = email_of(request.data)
                      /\ ~u.is_admin
        /\ UsersUnique

\* after a user was registered, an admin's request with that user's email
\* was turned down
C18_Witness ==
    /\ Registering
    /\ users # InitialUsers
    /\ CallerIsAdmin /\ HasCredentials
    /\ ~DuplicateUsername /\ DuplicateEmail
    /\ GivenEmail = Str("new@user.com")
    /\ response.status = 400

----------------------------------------------------------------------------
(* C19 *)

\* the last request was a GET of an existing profile
GotProfile ==
    /\ profile_request # None
    /\ profile_request.method = "GET"
    /\ profile_request.user_id \in DOMAIN user_profiles_storage

\* the value a field holds after a PUT set it to v
AsStored(f, v) == IF f = "display_name" THEN sanitize_text_input(v) ELSE v

----------------------------------------------------------------------------
(* C20 *)

\* all five modules ran, each reported 100 and none reported a finding
AllPerfect ==
    \A m \in Modules :
        /\ Ran(m)
        /\ ~HasError(m)
        /\ ReportedScore(m) = 10000
        /\ Findings(results[Key(m)]) = 0

\* C20: a completed run under the default thresholds in which all five
\* modules ran, each scoring 100 without findings, has overall_score 100.0
\* and a passed overall gate.
C20_PerfectRun ==
    (Aggregated /\ quality_gates = DefaultGates /\ AllPerfect) =>
        /\ quality_metrics.overall_score = 10000
        /\ gate_results["overall"].status = "PASS"
        /\ gate_results["overall"].passed_gates = gate_results["overall"].total_gates

\* such a run, in which the link checker and the performance monitor had
\* something to look at
C20_Witness ==
    /\ Aggregated
    /\ quality_gates = DefaultGates
    /\ AllPerfect
    /\ skip_modules = {}
    /\ link_results # EmptyBag
    /\ performance_metrics # EmptyBag

----------------------------------------------------------------------------
(* C21 *)

\* the weights of _calculate_quality_metrics sum to 1.0
WeightsSumToOne == SumSet(Weight, Modules) = 100

\* every module is in the skip list: no checker is left to run
NoCheckerToRun == Modules \subseteq skip_modules

\* C21: a run whose weights do not sum to 1.0, or which has no checker to
\* run, has failed with an error when it returns, without having invoked a
\* checker and without quality metrics, gates or summary.
C21_ConfigurationFailsFast ==
    (Returned /\ (~WeightsSumToOne \/ NoCheckerToRun)) =>
        /\ run_error # None
        /\ invoked = {}
        /\ quality_metrics = None
        /\ gate_results = EmptyDict
        /\ summary = EmptyDict

----------------------------------------------------------------------------
(* C22 *)

\* the checker has returned its report
Reported(checker) == pc = "reported" /\ checker \in invoked

\* the module score of a checker's report (hundredths)
ModuleScore(checker, report) == report.summary[SummaryField(checker)]

\* the severities one more finding on the checker's list can have for the
\* report to be built
Addable(checker) ==
    {sev \in by_severity_keys(checker) \cup {NativeSeverity} :
        ~by_severity_raises(checker, issues_of(checker) (+) SetToBag({sev}))}

\* C22: the module score a formatting, accessibility or mobile report
\* carries lies in [0, 100], and the report of the same findings with one
\* more finding, of whatever severity, carries a score that is not higher.
C22_ModuleScoreContract ==
    \A checker \in IssueCheckers :
        Reported(checker) =>
            LET score == ModuleScore(checker, results[checker])
            IN  /\ score \in 0..10000
                /\ \A sev \in Addable(checker) :
                       ModuleScore(checker,
                           generate_report_of(checker,
                               issues_of(checker) (+) SetToBag({sev}))) <= score

\* a mobile report whose findings weigh more than 100 points, and one more
\* finding would lower nothing
C22_Witness ==
    /\ Reported("mobile")
    /\ CopiesIn("critical", mobile_issues) > 5
    /\ CopiesIn("minor", mobile_issues) > 0
    /\ ModuleScore("mobile", results["mobile"]) = 0

----------------------------------------------------------------------------
(* C23 *)

\* C23: when the dashboard process has ended after a run in which a checker
\* raised, it ended through main's exit(1) and no exception left main
\* unhandled.
C23_MainExitsThroughExit ==
    (Exited /\ run_error # None) =>
        /\ unhandled = None
        /\ exit_status = 1

----------------------------------------------------------------------------
(* C24 *)

\* the modules the run was asked to run
NotSkipped == Modules \ skip_modules

\* C24: quality metrics exist only when every module that was not skipped
\* has its report, and a returned report never holds the reports of some of
\* these modules without the reports of the others.
C24_NoPartialResults ==
    /\ quality_metrics # None => \A m \in NotSkipped : Ran(m)
    /\ Returned =>
           \/ \A m \in NotSkipped : Ran(m)
           \/ \A m \in NotSkipped : ~Ran(m)

----------------------------------------------------------------------------
(* C25 *)

\* the entry point of the checker is behind it, one way or the other
Finished(checker) == checker \in invoked /\ pc \in {"reported", "raised"}

\* the lowest of the levels a checker's builder counts
LowestLevel(checker) == IF checker = "formatting" THEN "info" ELSE "minor"

\* the issues with every unlisted severity taken as the lowest level
AsMinor(checker, issues) ==
    LET listed == [sev \in by_severity_keys(checker) |->
                      CopiesIn(sev, issues) +
                      (IF sev = LowestLevel(checker)
                       THEN CopiesIn(NativeSeverity, issues) ELSE 0)]
    IN  MkBag(listed)

----------------------------------------------------------------------------
(* C26 *)

\* the result keys of the reports other than a module's
OtherReports(m) == DOMAIN results \ {Key(m)}

\* C26: when a completed run holds a module report that carries 'error',
\* total_issues and critical_issues are what the other reports add up to.
C26_ErrorReportAddsNothing ==
    \A m \in Modules :
        (Aggregated /\ HasError(m)) =>
            /\ quality_metrics.total_issues =
                   SumOver(module_total_issues, results, OtherReports(m))
            /\ quality_metrics.critical_issues =
                   SumOver(module_critical_issues, results, OtherReports(m))

\* the site was down for the mobile tester while other checkers had findings
C26_Witness ==
    /\ Aggregated
    /\ HasError("mobile")
    /\ quality_metrics.total_issues > 0
    /\ quality_metrics.critical_issues > 0

----------------------------------------------------------------------------
(* C27 *)

\* C27: a run with all five modules skipped has, when it returns, invoked
\* no checker and reports overall_score 100.0, no issue and the overall
\* status PASS; the dashboard process then ends with exit status 0.
C27_AllSkippedPasses ==
    (NoCheckerToRun /\ (Returned \/ Exited)) =>
        /\ invoked = {}
        /\ results = EmptyDict
        /\ run_error = None
        /\ quality_metrics.overall_score = 10000
        /\ quality_metrics.total_issues = 0
        /\ quality_metrics.critical_issues = 0
        /\ summary.overall_status = "PASS"
        /\ Exited => (exit_status = 0 /\ unhandled = None)

\* main has exited after such a run
C27_Witness ==
    /\ Exited
    /\ NoCheckerToRun
    /\ modules_executed = <<>>
    /\ exit_status = 0

----------------------------------------------------------------------------
(* C28 *)

\* the last n entries of a list
LastEntries(s, n) == SubSeq(s, Len(s) - n + 1, Len(s))

\* C28: the merged recommendations of a completed run end with the eight
\* high-level recommendations, all of them, in their order.
C28_HighLevelTail ==
    Aggregated =>
        /\ Len(high_level_recs) = 8
        /\ Len(recommendations) >= 8
        /\ LastEntries(recommendations, 8) = high_level_recs

\* four modules recommended something ahead of the tail, the mobile tester
\* reported that the site was down
C28_Witness ==
    /\ Aggregated
    /\ HasError("mobile")
    /\ \A m \in Modules \ {"mobile"} : ModuleRecommendations(m) # <<>>
    /\ Len(recommendations) > 8 + 4

----------------------------------------------------------------------------
(* C29 *)

\* the tasks inside 'async with semaphore'
Holders == {t \in DOMAIN domain_tasks : domain_tasks[t].pc \in {"requesting", "sleeping"}}

\* the number of LinkResults appended for a link
ResultsOf(link) ==
    CopiesIn(LinkResult(link, TRUE), link_results) +
    CopiesIn(LinkResult(link, FALSE), link_results)

\* the distinct urls of the external links
DistinctUrls == {external_links[i].url : i \in DOMAIN external_links}

\* C29: during the validation of the external links no url is requested
\* more than once, no link has more than one LinkResult and no more than 10
\* tasks hold the semaphore; when the validation is over every link has
\* exactly one LinkResult, these are all the results, and every distinct url
\* was requested exactly once, all other occurrences served from the cache.
C29_ExternalValidation ==
    /\ \A url \in BagToSet(requested) : CopiesIn(url, requested) <= 1
    /\ \A i \in DOMAIN external_links : ResultsOf(external_links[i]) <= 1
    /\ pc \in {"gathering", "validated"} =>
           /\ Cardinality(Holders) <= SemaphoreValue
           /\ semaphore = SemaphoreValue - Cardinality(Holders)
    /\ pc = "validated" =>
           /\ \A i \in DOMAIN external_links : ResultsOf(external_links[i]) = 1
           /\ BagCardinality(link_results) = Len(external_links)
           /\ BagToSet(requested) = DistinctUrls
           /\ DOMAIN external_cache = DistinctUrls

\* the semaphore has no free slot while the task that had to wait for one
\* serves the second occurrence of its url from the cache
C29_Witness ==
    /\ pc = "gathering"
    /\ semaphore = 0
    /\ Cardinality(Holders) = SemaphoreValue
    /\ \E t \in Holders :
           /\ domain_tasks[t].at = 2
           /\ domain_tasks[t].pc = "sleeping"
           /\ CopiesIn(current_link(t).url, requested) = 1
           /\ ResultsOf(current_link(t)) = 1

----------------------------------------------------------------------------
(* C30 *)

\* the step handles a PUT and answers it with something other than 200
PutRejected ==
    /\ profile_request'.method = "PUT"
    /\ profile_response'.status \in {400, 404, 422}

\* every profile is stored under its own user_id, and the stored user ids
\* are the ones the application started with
StorageKeyed ==
    /\ DOMAIN user_profiles_storage = DOMAIN InitialProfiles
    /\ \A user_id \in DOMAIN user_profiles_storage :
           user_profiles_storage[user_id].user_id = user_id

\* C30: a PUT answered 400, 404 or 422 leaves user_profiles_storage as it
\* was; whatever PUTs were handled, the stored user ids are the initial
\* ones and every profile's user_id is the key it is stored under.
C30_PutFrame ==
    /\ [][PutRejected => user_profiles_storage' = user_profiles_storage]_vars
    /\ []StorageKeyed

\* a PUT was turned down by the schema after an earlier PUT had renamed the
\* user and changed the profile
C30_Witness ==
    /\ profile_request # None
    /\ profile_request.method = "PUT"
    /\ profile_response.status = 422
    /\ user_profiles_storage # InitialProfiles
    /\ user_profiles_storage[profile_request.user_id].username = Str("new_user")
    /\ StorageKeyed

====
